---- MODULE Spec2Model ----
(***************************************************************************)
(* The IBC 02-client keeper: CreateClient, UpdateClient and                *)
(* CheckMisbehaviourAndUpdateState over the client store (client state,    *)
(* client type and height-indexed consensus states per client identifier). *)
(***************************************************************************)
EXTENDS Integers, Sequences, FiniteSets, TLC

\* ---------------------------------------------------------------- bounds
MaxHeight == 3

ClientIDs == {"chainA"}
Heights == 1..MaxHeight
Roots == {"r1", "r2"}

\* exported.ClientType: Tendermint is the only type the keeper dispatches on
Tendermint == "Tendermint"
OtherType == "Other"
ClientTypeValues == {Tendermint, OtherType}

\* ---------------------------------------------------------------- errors
ErrNil == "nil"
ErrClientExists == "ErrClientExists"
ErrClientTypeNotFound == "ErrClientTypeNotFound"
ErrInvalidConsensus == "ErrInvalidConsensus"
ErrClientNotFound == "ErrClientNotFound"
ErrClientFrozen == "ErrClientFrozen"
ErrInvalidClientType == "ErrInvalidClientType"
ErrInvalidHeader == "ErrInvalidHeader"
ErrConsensusStateNotFound == "ErrConsensusStateNotFound"
ErrUnknownRequest == "ErrUnknownRequest"
ErrInvalidEvidence == "ErrInvalidEvidence"
Panic == "panic"

\* ---------------------------------------------------------------- events
EventTypeCreateClient == "EventTypeCreateClient"
EventTypeUpdateClient == "EventTypeUpdateClient"
EventTypeSubmitMisbehaviour == "EventTypeSubmitMisbehaviour"
EventTypeMessage == "EventTypeMessage"
NoAttr == "-"

NewEvent(type, clientID, clientType) ==
    [type |-> type, client_id |-> clientID, client_type |-> clientType]

MessageEvent == NewEvent(EventTypeMessage, NoAttr, NoAttr)

\* ---------------------------------------------------------------- state
VARIABLES
    clientStates,     \* clientID -> ClientState, defined on the stored clients
    clientTypes,      \* clientID -> ClientType, defined on the stored tags
    consensusStates,  \* <<clientID, height>> -> ConsensusState
    last              \* the last call: operation, arguments, error, events

vars == <<clientStates, clientTypes, consensusStates, last>>

\* the inputs a caller can hand to the keeper
ConsensusStateInputs == [height : Heights, root : Roots]
Headers == [clientType : ClientTypeValues, height : Heights, root : Roots, valid : BOOLEAN]
Misbehaviours ==
    [clientID : ClientIDs, height : Heights, clientType : ClientTypeValues, valid : BOOLEAN]

\* ---------------------------------------------------------------- store
GetClientState(clientID) == clientID \in DOMAIN clientStates
GetClientType(clientID) == clientID \in DOMAIN clientTypes
GetClientConsensusState(clientID, height) == <<clientID, height>> \in DOMAIN consensusStates

\* a map with key k set to v, whether or not k was present
Put(m, k, v) == [x \in (DOMAIN m) \cup {k} |-> IF x = k THEN v ELSE m[x]]

IsFrozen(clientState) == clientState.frozen

Call(op, clientID, clientType, height, valid, err, events) ==
    [op |-> op, clientID |-> clientID, clientType |-> clientType, height |-> height,
     valid |-> valid, err |-> err, events |-> events]

Init ==
    /\ clientStates = <<>>
    /\ clientTypes = <<>>
    /\ consensusStates = <<>>
    /\ last = Call("Init", NoAttr, NoAttr, 0, FALSE, ErrNil, <<>>)

\* ---------------------------------------------------------------- strategy
\* Keeper.initialize: the strategy of the client type builds the initial
\* client state from the consensus state; the snapshot becomes the first
\* trust anchor of the client.
initialize(clientID, clientType, consensusState) ==
    IF clientType # Tendermint THEN [err |-> ErrInvalidClientType]
    ELSE [err |-> ErrNil,
          clientState |-> [latestHeight |-> consensusState.height,
                           frozen |-> FALSE, frozenHeight |-> 0],
          consensusState |-> [height |-> consensusState.height,
                              root |-> consensusState.root]]

\* tendermint.CheckValidityAndUpdateState: a header is accepted when it is
\* valid and newer than the latest verified height.
CheckValidityAndUpdateState(clientState, header) ==
    IF header.valid /\ header.height > clientState.latestHeight
    THEN [err |-> ErrNil,
          clientState |-> [clientState EXCEPT !.latestHeight = header.height],
          consensusState |-> [height |-> header.height, root |-> header.root]]
    ELSE [err |-> ErrInvalidHeader]

\* tendermint.CheckMisbehaviourAndUpdateState: confirmed misbehaviour returns
\* the client state with the frozen flag set and the frozen height recorded.
TmCheckMisbehaviourAndUpdateState(clientState, consensusState, misbehaviour, height) ==
    IF misbehaviour.valid
    THEN [err |-> ErrNil,
          clientState |-> [clientState EXCEPT !.frozen = TRUE, !.frozenHeight = height]]
    ELSE [err |-> ErrInvalidEvidence]

\* ---------------------------------------------------------------- keeper
\* the record of a call: what was asked, the error returned, the events emitted
CreateCall(clientID, clientType, consensusState, err, events) ==
    Call("Create", clientID, clientType, consensusState.height, TRUE, err, events)

UpdateCall(clientID, header, err, events) ==
    Call("Update", clientID, header.clientType, header.height, header.valid, err, events)

MisbehaviourCall(misbehaviour, err, events) ==
    Call("Misbehaviour", misbehaviour.clientID, misbehaviour.clientType,
         misbehaviour.height, misbehaviour.valid, err, events)

CreateEvents(clientID) == <<NewEvent(EventTypeCreateClient, clientID, NoAttr), MessageEvent>>
\* the update announces itself with the event type of a creation
UpdateEvents_CreateType(clientID) ==
    <<NewEvent(EventTypeCreateClient, clientID, NoAttr), MessageEvent>>

UpdateEvents(clientID) == <<NewEvent(EventTypeUpdateClient, clientID, NoAttr), MessageEvent>>
MisbehaviourEvents(misbehaviour) ==
    <<NewEvent(EventTypeSubmitMisbehaviour, misbehaviour.clientID, misbehaviour.clientType)>>

\* an error return: nothing is written, nothing is emitted
Abort(call) ==
    /\ last' = call
    /\ UNCHANGED <<clientStates, clientTypes, consensusStates>>

\* -- CreateClient and the slips it could have
CreateClient_NoExistsCheck(clientID, clientType, consensusState) ==
    LET r == initialize(clientID, clientType, consensusState)
    IN  IF r.err # ErrNil
        THEN Abort(CreateCall(clientID, clientType, consensusState, r.err, <<>>))
        ELSE /\ consensusStates' =
                    Put(consensusStates, <<clientID, r.consensusState.height>>, r.consensusState)
             /\ clientStates' = Put(clientStates, clientID, r.clientState)
             /\ clientTypes' = Put(clientTypes, clientID, clientType)
             /\ last' = CreateCall(clientID, clientType, consensusState, ErrNil,
                                   CreateEvents(clientID))

CreateClient_TypeBeforeInit(clientID, clientType, consensusState) ==
    LET r == initialize(clientID, clientType, consensusState)
    IN  IF GetClientState(clientID)
        THEN Abort(CreateCall(clientID, clientType, consensusState, ErrClientExists, <<>>))
        ELSE IF GetClientType(clientID)
        THEN Abort(CreateCall(clientID, clientType, consensusState, Panic, <<>>))
        ELSE IF r.err # ErrNil
        THEN /\ clientTypes' = Put(clientTypes, clientID, clientType)
             /\ UNCHANGED <<clientStates, consensusStates>>
             /\ last' = CreateCall(clientID, clientType, consensusState, r.err, <<>>)
        ELSE /\ consensusStates' =
                    Put(consensusStates, <<clientID, r.consensusState.height>>, r.consensusState)
             /\ clientStates' = Put(clientStates, clientID, r.clientState)
             /\ clientTypes' = Put(clientTypes, clientID, clientType)
             /\ last' = CreateCall(clientID, clientType, consensusState, ErrNil,
                                   CreateEvents(clientID))

CreateClient_NoSetType(clientID, clientType, consensusState) ==
    LET r == initialize(clientID, clientType, consensusState)
    IN  IF GetClientState(clientID)
        THEN Abort(CreateCall(clientID, clientType, consensusState, ErrClientExists, <<>>))
        ELSE IF GetClientType(clientID)
        THEN Abort(CreateCall(clientID, clientType, consensusState, Panic, <<>>))
        ELSE IF r.err # ErrNil
        THEN Abort(CreateCall(clientID, clientType, consensusState, r.err, <<>>))
        ELSE /\ consensusStates' =
                    Put(consensusStates, <<clientID, r.consensusState.height>>, r.consensusState)
             /\ clientStates' = Put(clientStates, clientID, r.clientState)
             /\ UNCHANGED clientTypes
             /\ last' = CreateCall(clientID, clientType, consensusState, ErrNil,
                                   CreateEvents(clientID))

CreateClient(clientID, clientType, consensusState) ==
    LET r == initialize(clientID, clientType, consensusState)
    IN  IF GetClientState(clientID)
        THEN Abort(CreateCall(clientID, clientType, consensusState, ErrClientExists, <<>>))
        ELSE IF GetClientType(clientID)
        THEN Abort(CreateCall(clientID, clientType, consensusState, Panic, <<>>))
        ELSE IF r.err # ErrNil
        THEN Abort(CreateCall(clientID, clientType, consensusState, r.err, <<>>))
        ELSE /\ consensusStates' =
                    Put(consensusStates, <<clientID, r.consensusState.height>>, r.consensusState)
             /\ clientStates' = Put(clientStates, clientID, r.clientState)
             /\ clientTypes' = Put(clientTypes, clientID, clientType)
             /\ last' = CreateCall(clientID, clientType, consensusState, ErrNil,
                                   CreateEvents(clientID))

\* -- UpdateClient and the slips it could have
\* the writes and events of a successful update, the snapshot stored at `height`
UpdateCommit(clientID, header, r, height) ==
    /\ clientStates' = Put(clientStates, clientID, r.clientState)
    /\ consensusStates' = Put(consensusStates, <<clientID, height>>, r.consensusState)
    /\ UNCHANGED clientTypes
    /\ last' = UpdateCall(clientID, header, ErrNil, UpdateEvents(clientID))

UpdateClient_NoFrozenCheck(clientID, header) ==
    IF ~GetClientType(clientID)
    THEN Abort(UpdateCall(clientID, header, ErrClientTypeNotFound, <<>>))
    ELSE IF header.clientType # clientTypes[clientID]
    THEN Abort(UpdateCall(clientID, header, ErrInvalidConsensus, <<>>))
    ELSE IF ~GetClientState(clientID)
    THEN Abort(UpdateCall(clientID, header, ErrClientNotFound, <<>>))
    ELSE IF clientTypes[clientID] # Tendermint
    THEN Abort(UpdateCall(clientID, header, ErrInvalidClientType, <<>>))
    ELSE LET r == CheckValidityAndUpdateState(clientStates[clientID], header)
         IN  IF r.err # ErrNil
             THEN Abort(UpdateCall(clientID, header, r.err, <<>>))
             ELSE UpdateCommit(clientID, header, r, header.height)

UpdateClient_NoConsensusWrite(clientID, header) ==
    IF ~GetClientType(clientID)
    THEN Abort(UpdateCall(clientID, header, ErrClientTypeNotFound, <<>>))
    ELSE IF header.clientType # clientTypes[clientID]
    THEN Abort(UpdateCall(clientID, header, ErrInvalidConsensus, <<>>))
    ELSE IF ~GetClientState(clientID)
    THEN Abort(UpdateCall(clientID, header, ErrClientNotFound, <<>>))
    ELSE IF IsFrozen(clientStates[clientID])
    THEN Abort(UpdateCall(clientID, header, ErrClientFrozen, <<>>))
    ELSE IF clientTypes[clientID] # Tendermint
    THEN Abort(UpdateCall(clientID, header, ErrInvalidClientType, <<>>))
    ELSE LET r == CheckValidityAndUpdateState(clientStates[clientID], header)
         IN  IF r.err # ErrNil
             THEN Abort(UpdateCall(clientID, header, r.err, <<>>))
             ELSE /\ clientStates' = Put(clientStates, clientID, r.clientState)
                  /\ UNCHANGED <<clientTypes, consensusStates>>
                  /\ last' = UpdateCall(clientID, header, ErrNil, UpdateEvents(clientID))

\* stores the new snapshot under the height the client had before the update
UpdateClient_OldHeightKey(clientID, header) ==
    IF ~GetClientType(clientID)
    THEN Abort(UpdateCall(clientID, header, ErrClientTypeNotFound, <<>>))
    ELSE IF header.clientType # clientTypes[clientID]
    THEN Abort(UpdateCall(clientID, header, ErrInvalidConsensus, <<>>))
    ELSE IF ~GetClientState(clientID)
    THEN Abort(UpdateCall(clientID, header, ErrClientNotFound, <<>>))
    ELSE IF IsFrozen(clientStates[clientID])
    THEN Abort(UpdateCall(clientID, header, ErrClientFrozen, <<>>))
    ELSE IF clientTypes[clientID] # Tendermint
    THEN Abort(UpdateCall(clientID, header, ErrInvalidClientType, <<>>))
    ELSE LET r == CheckValidityAndUpdateState(clientStates[clientID], header)
         IN  IF r.err # ErrNil
             THEN Abort(UpdateCall(clientID, header, r.err, <<>>))
             ELSE UpdateCommit(clientID, header, r, clientStates[clientID].latestHeight)

\* does not compare the header's type with the stored type
UpdateClient_NoTypeCheck(clientID, header) ==
    IF ~GetClientType(clientID)
    THEN Abort(UpdateCall(clientID, header, ErrClientTypeNotFound, <<>>))
    ELSE IF ~GetClientState(clientID)
    THEN Abort(UpdateCall(clientID, header, ErrClientNotFound, <<>>))
    ELSE IF IsFrozen(clientStates[clientID])
    THEN Abort(UpdateCall(clientID, header, ErrClientFrozen, <<>>))
    ELSE IF clientTypes[clientID] # Tendermint
    THEN Abort(UpdateCall(clientID, header, ErrInvalidClientType, <<>>))
    ELSE LET r == CheckValidityAndUpdateState(clientStates[clientID], header)
         IN  IF r.err # ErrNil
             THEN Abort(UpdateCall(clientID, header, r.err, <<>>))
             ELSE UpdateCommit(clientID, header, r, header.height)

\* the switch over the client type has no default arm: a type without a
\* strategy falls through and the call reports success without doing anything
UpdateClient_SilentDefault(clientID, header) ==
    IF ~GetClientType(clientID)
    THEN Abort(UpdateCall(clientID, header, ErrClientTypeNotFound, <<>>))
    ELSE IF header.clientType # clientTypes[clientID]
    THEN Abort(UpdateCall(clientID, header, ErrInvalidConsensus, <<>>))
    ELSE IF ~GetClientState(clientID)
    THEN Abort(UpdateCall(clientID, header, ErrClientNotFound, <<>>))
    ELSE IF IsFrozen(clientStates[clientID])
    THEN Abort(UpdateCall(clientID, header, ErrClientFrozen, <<>>))
    ELSE IF clientTypes[clientID] # Tendermint
    THEN Abort(UpdateCall(clientID, header, ErrNil, <<>>))
    ELSE LET r == CheckValidityAndUpdateState(clientStates[clientID], header)
         IN  IF r.err # ErrNil
             THEN Abort(UpdateCall(clientID, header, r.err, <<>>))
             ELSE UpdateCommit(clientID, header, r, header.height)

\* stores the new snapshot but not the new client state
UpdateClient_NoStateWrite(clientID, header) ==
    IF ~GetClientType(clientID)
    THEN Abort(UpdateCall(clientID, header, ErrClientTypeNotFound, <<>>))
    ELSE IF header.clientType # clientTypes[clientID]
    THEN Abort(UpdateCall(clientID, header, ErrInvalidConsensus, <<>>))
    ELSE IF ~GetClientState(clientID)
    THEN Abort(UpdateCall(clientID, header, ErrClientNotFound, <<>>))
    ELSE IF IsFrozen(clientStates[clientID])
    THEN Abort(UpdateCall(clientID, header, ErrClientFrozen, <<>>))
    ELSE IF clientTypes[clientID] # Tendermint
    THEN Abort(UpdateCall(clientID, header, ErrInvalidClientType, <<>>))
    ELSE LET r == CheckValidityAndUpdateState(clientStates[clientID], header)
         IN  IF r.err # ErrNil
             THEN Abort(UpdateCall(clientID, header, r.err, <<>>))
             ELSE /\ consensusStates' =
                         Put(consensusStates, <<clientID, header.height>>, r.consensusState)
                  /\ UNCHANGED <<clientStates, clientTypes>>
                  /\ last' = UpdateCall(clientID, header, ErrNil, UpdateEvents(clientID))

\* looks the client state up before the type tag
UpdateClient_StateBeforeType(clientID, header) ==
    IF ~GetClientState(clientID)
    THEN Abort(UpdateCall(clientID, header, ErrClientNotFound, <<>>))
    ELSE IF ~GetClientType(clientID)
    THEN Abort(UpdateCall(clientID, header, ErrClientTypeNotFound, <<>>))
    ELSE IF header.clientType # clientTypes[clientID]
    THEN Abort(UpdateCall(clientID, header, ErrInvalidConsensus, <<>>))
    ELSE IF IsFrozen(clientStates[clientID])
    THEN Abort(UpdateCall(clientID, header, ErrClientFrozen, <<>>))
    ELSE IF clientTypes[clientID] # Tendermint
    THEN Abort(UpdateCall(clientID, header, ErrInvalidClientType, <<>>))
    ELSE LET r == CheckValidityAndUpdateState(clientStates[clientID], header)
         IN  IF r.err # ErrNil
             THEN Abort(UpdateCall(clientID, header, r.err, <<>>))
             ELSE UpdateCommit(clientID, header, r, header.height)

UpdateClient(clientID, header) ==
    IF ~GetClientType(clientID)
    THEN Abort(UpdateCall(clientID, header, ErrClientTypeNotFound, <<>>))
    ELSE IF header.clientType # clientTypes[clientID]
    THEN Abort(UpdateCall(clientID, header, ErrInvalidConsensus, <<>>))
    ELSE IF ~GetClientState(clientID)
    THEN Abort(UpdateCall(clientID, header, ErrClientNotFound, <<>>))
    ELSE IF IsFrozen(clientStates[clientID])
    THEN Abort(UpdateCall(clientID, header, ErrClientFrozen, <<>>))
    ELSE IF clientTypes[clientID] # Tendermint
    THEN Abort(UpdateCall(clientID, header, ErrInvalidClientType, <<>>))
    ELSE LET r == CheckValidityAndUpdateState(clientStates[clientID], header)
         IN  IF r.err # ErrNil
             THEN Abort(UpdateCall(clientID, header, r.err, <<>>))
             ELSE UpdateCommit(clientID, header, r, header.height)

\* hands evidence of every type to the Tendermint strategy
DispatchMisbehaviour_AnyType(clientID, misbehaviour) ==
    TmCheckMisbehaviourAndUpdateState(
        clientStates[clientID],
        consensusStates[<<clientID, misbehaviour.height>>],
        misbehaviour, misbehaviour.height)

\* -- CheckMisbehaviourAndUpdateState and the slips it could have
\* the type switch over the evidence: the Tendermint strategy or no strategy
DispatchMisbehaviour(clientID, misbehaviour) ==
    IF misbehaviour.clientType = Tendermint
    THEN TmCheckMisbehaviourAndUpdateState(
             clientStates[clientID],
             consensusStates[<<clientID, misbehaviour.height>>],
             misbehaviour, misbehaviour.height)
    ELSE [err |-> ErrUnknownRequest]

\* the write and event of a confirmed misbehaviour
Freeze(clientID, misbehaviour, clientState) ==
    /\ clientStates' = Put(clientStates, clientID, clientState)
    /\ UNCHANGED <<clientTypes, consensusStates>>
    /\ last' = MisbehaviourCall(misbehaviour, ErrNil, MisbehaviourEvents(misbehaviour))

\* takes the evidence height for the latest height of the frozen client
CheckMisbehaviourAndUpdateState_LatestFromEvidence(misbehaviour) ==
    LET clientID == misbehaviour.clientID
    IN  IF ~GetClientState(clientID)
        THEN Abort(MisbehaviourCall(misbehaviour, ErrClientNotFound, <<>>))
        ELSE IF ~GetClientConsensusState(clientID, misbehaviour.height)
        THEN Abort(MisbehaviourCall(misbehaviour, ErrConsensusStateNotFound, <<>>))
        ELSE LET r == DispatchMisbehaviour(clientID, misbehaviour)
             IN  IF r.err # ErrNil
                 THEN Abort(MisbehaviourCall(misbehaviour, r.err, <<>>))
                 ELSE Freeze(clientID, misbehaviour,
                             [r.clientState EXCEPT !.latestHeight = misbehaviour.height])

\* reports success without saving the frozen client state
CheckMisbehaviourAndUpdateState_NoSave(misbehaviour) ==
    LET clientID == misbehaviour.clientID
    IN  IF ~GetClientState(clientID)
        THEN Abort(MisbehaviourCall(misbehaviour, ErrClientNotFound, <<>>))
        ELSE IF ~GetClientConsensusState(clientID, misbehaviour.height)
        THEN Abort(MisbehaviourCall(misbehaviour, ErrConsensusStateNotFound, <<>>))
        ELSE LET r == DispatchMisbehaviour(clientID, misbehaviour)
             IN  IF r.err # ErrNil
                 THEN Abort(MisbehaviourCall(misbehaviour, r.err, <<>>))
                 ELSE /\ UNCHANGED <<clientStates, clientTypes, consensusStates>>
                      /\ last' = MisbehaviourCall(misbehaviour, ErrNil,
                                                  MisbehaviourEvents(misbehaviour))

\* emits the misbehaviour event before looking at the strategy's verdict
CheckMisbehaviourAndUpdateState_EmitBeforeVerdict(misbehaviour) ==
    LET clientID == misbehaviour.clientID
    IN  IF ~GetClientState(clientID)
        THEN Abort(MisbehaviourCall(misbehaviour, ErrClientNotFound, <<>>))
        ELSE IF ~GetClientConsensusState(clientID, misbehaviour.height)
        THEN Abort(MisbehaviourCall(misbehaviour, ErrConsensusStateNotFound, <<>>))
        ELSE LET r == DispatchMisbehaviour(clientID, misbehaviour)
             IN  IF r.err # ErrNil
                 THEN Abort(MisbehaviourCall(misbehaviour, r.err,
                                             MisbehaviourEvents(misbehaviour)))
                 ELSE Freeze(clientID, misbehaviour, r.clientState)

\* drops the snapshot the evidence was checked against when it freezes the client
CheckMisbehaviourAndUpdateState_DropsSnapshot(misbehaviour) ==
    LET clientID == misbehaviour.clientID
        key == <<clientID, misbehaviour.height>>
    IN  IF ~GetClientState(clientID)
        THEN Abort(MisbehaviourCall(misbehaviour, ErrClientNotFound, <<>>))
        ELSE IF ~GetClientConsensusState(clientID, misbehaviour.height)
        THEN Abort(MisbehaviourCall(misbehaviour, ErrConsensusStateNotFound, <<>>))
        ELSE LET r == DispatchMisbehaviour(clientID, misbehaviour)
             IN  IF r.err # ErrNil
                 THEN Abort(MisbehaviourCall(misbehaviour, r.err, <<>>))
                 ELSE /\ clientStates' = Put(clientStates, clientID, r.clientState)
                      /\ consensusStates' =
                             [k \in (DOMAIN consensusStates) \ {key} |-> consensusStates[k]]
                      /\ UNCHANGED clientTypes
                      /\ last' = MisbehaviourCall(misbehaviour, ErrNil,
                                                  MisbehaviourEvents(misbehaviour))

\* does not look up the consensus state at the evidence height
CheckMisbehaviourAndUpdateState_NoConsensusCheck(misbehaviour) ==
    LET clientID == misbehaviour.clientID
    IN  IF ~GetClientState(clientID)
        THEN Abort(MisbehaviourCall(misbehaviour, ErrClientNotFound, <<>>))
        ELSE LET r == IF misbehaviour.clientType = Tendermint
                      THEN TmCheckMisbehaviourAndUpdateState(
                               clientStates[clientID], <<>>, misbehaviour, misbehaviour.height)
                      ELSE [err |-> ErrUnknownRequest]
             IN  IF r.err # ErrNil
                 THEN Abort(MisbehaviourCall(misbehaviour, r.err, <<>>))
                 ELSE Freeze(clientID, misbehaviour, r.clientState)

CheckMisbehaviourAndUpdateState(misbehaviour) ==
    LET clientID == misbehaviour.clientID
    IN  IF ~GetClientState(clientID)
        THEN Abort(MisbehaviourCall(misbehaviour, ErrClientNotFound, <<>>))
        ELSE IF ~GetClientConsensusState(clientID, misbehaviour.height)
        THEN Abort(MisbehaviourCall(misbehaviour, ErrConsensusStateNotFound, <<>>))
        ELSE LET r == DispatchMisbehaviour(clientID, misbehaviour)
             IN  IF r.err # ErrNil
                 THEN Abort(MisbehaviourCall(misbehaviour, r.err, <<>>))
                 ELSE Freeze(clientID, misbehaviour, r.clientState)

\* ---------------------------------------------------------------- system
Next ==
    \/ \E clientID \in ClientIDs, clientType \in ClientTypeValues, cs \in ConsensusStateInputs :
           CreateClient(clientID, clientType, cs)
    \/ \E clientID \in ClientIDs, header \in Headers : UpdateClient(clientID, header)
    \/ \E misbehaviour \in Misbehaviours : CheckMisbehaviourAndUpdateState(misbehaviour)

Spec == Init /\ [][Next]_vars

\* The keeper started on a store it did not write itself: the client state and
\* the type tag of an identifier are present or absent independently of each
\* other, and the tag may be one no strategy is registered for.  These are the
\* stores the handlers' ErrClientNotFound, ErrInvalidClientType and panic
\* branches are written for.
InitAnyStore ==
    /\ clientStates \in
           {<<>>} \cup {[id \in {c} |-> [latestHeight |-> h, frozen |-> FALSE, frozenHeight |-> 0]] :
                           c \in ClientIDs, h \in Heights}
    /\ clientTypes \in
           {<<>>} \cup {[id \in {c} |-> t] : c \in ClientIDs, t \in ClientTypeValues}
    /\ consensusStates \in
           IF DOMAIN clientStates = {}
           THEN {<<>>}
           ELSE {[key \in {<<c, clientStates[c].latestHeight>> : c \in DOMAIN clientStates}
                    |-> [height |-> key[2], root |-> r]] : r \in Roots}
    /\ last = Call("Init", NoAttr, NoAttr, 0, FALSE, ErrNil, <<>>)

SpecAnyStore == InitAnyStore /\ [][Next]_vars

TypeOK ==
    /\ DOMAIN clientStates \subseteq ClientIDs
    /\ DOMAIN clientTypes \subseteq ClientIDs
    /\ DOMAIN consensusStates \subseteq ClientIDs \X Heights

\* ---------------------------------------------------------------- properties
Store == <<clientStates, clientTypes, consensusStates>>

Exists(clientID) == clientID \in DOMAIN clientStates
Frozen(clientID) == Exists(clientID) /\ clientStates[clientID].frozen
StoredHeights(clientID) == {h \in Heights : <<clientID, h>> \in DOMAIN consensusStates}

\* C1 (as stated): an Update on a frozen client fails with ErrClientFrozen
\* whatever the header, and writes nothing.
C1_FrozenUpdateAlwaysErrClientFrozen ==
    [][(last'.op = "Update" /\ Frozen(last'.clientID))
         => (last'.err = ErrClientFrozen /\ UNCHANGED Store)]_vars

\* C1 (amended): an Update on a frozen client always fails and writes nothing;
\* the error is ErrClientFrozen when the header's type equals the stored type,
\* and ErrInvalidConsensus when it differs.
C1_FrozenUpdateFails ==
    [][(last'.op = "Update" /\ Frozen(last'.clientID))
         => /\ last'.clientID \in DOMAIN clientTypes
            /\ last'.err = (IF last'.clientType = clientTypes[last'.clientID]
                            THEN ErrClientFrozen ELSE ErrInvalidConsensus)
            /\ UNCHANGED Store]_vars

C1_Witness ==
    /\ last.op = "Update" /\ last.err = ErrClientFrozen /\ last.valid
    /\ Frozen(last.clientID)
    /\ last.height > clientStates[last.clientID].latestHeight

\* C2: once a client is frozen it is frozen after every later call.
C2_FrozenIsTerminal ==
    [][\A clientID \in ClientIDs :
           Frozen(clientID) => (clientID \in DOMAIN clientStates'
                                /\ clientStates'[clientID].frozen)]_vars

C2_Witness ==
    /\ last.op = "Create" /\ last.err = ErrClientExists
    /\ Frozen(last.clientID)

\* C3: the latest height of a stored client never decreases, and an Update
\* never freezes the client it is applied to.
C3_LatestHeightNeverDecreases ==
    [][\A clientID \in ClientIDs :
           Exists(clientID)
             => /\ clientID \in DOMAIN clientStates'
                /\ clientStates'[clientID].latestHeight >= clientStates[clientID].latestHeight
                /\ (last'.op = "Update" /\ ~clientStates[clientID].frozen)
                      => ~clientStates'[clientID].frozen]_vars

\* two updates in a row have succeeded on a client that is still active
C3_Witness ==
    /\ last.op = "Update" /\ last.err = ErrNil
    /\ Exists(last.clientID)
    /\ clientStates[last.clientID].latestHeight = last.height
    /\ ~clientStates[last.clientID].frozen
    /\ Cardinality(StoredHeights(last.clientID)) >= 3

\* C4: a Create for an identifier that has a client state fails with
\* ErrClientExists and writes nothing, whatever type and snapshot it passes.
C4_CreateExistingFails ==
    [][(last'.op = "Create" /\ Exists(last'.clientID))
         => (last'.err = ErrClientExists /\ UNCHANGED Store)]_vars

C4_Witness ==
    /\ last.op = "Create" /\ last.err = ErrClientExists
    /\ last.clientType = OtherType
    /\ Exists(last.clientID)
    /\ last.height # clientStates[last.clientID].latestHeight

\* C5: a call that returns an error leaves the store as it was; a successful
\* Create has written state and type, a successful Update state and snapshot,
\* a successful freeze the state.
C5_AllOrNothing ==
    [][/\ last'.err # ErrNil => UNCHANGED Store
       /\ (last'.err = ErrNil /\ last'.op = "Create")
            => /\ last'.clientID \in DOMAIN clientStates'
               /\ clientStates'[last'.clientID].latestHeight = last'.height
               /\ last'.clientID \in DOMAIN clientTypes'
               /\ clientTypes'[last'.clientID] = last'.clientType
       /\ (last'.err = ErrNil /\ last'.op = "Update")
            => /\ last'.clientID \in DOMAIN clientStates'
               /\ clientStates'[last'.clientID].latestHeight = last'.height
               /\ <<last'.clientID, last'.height>> \in DOMAIN consensusStates'
               /\ consensusStates'[<<last'.clientID, last'.height>>].height = last'.height
       /\ (last'.err = ErrNil /\ last'.op = "Misbehaviour")
            => /\ last'.clientID \in DOMAIN clientStates'
               /\ clientStates'[last'.clientID].frozen]_vars

\* a header the strategy rejected, on an active client
C5_Witness ==
    /\ last.op = "Update" /\ last.err = ErrInvalidHeader /\ ~last.valid
    /\ Exists(last.clientID) /\ ~Frozen(last.clientID)

\* C6: evidence that proves misbehaviour against a stored snapshot of an
\* active client freezes it at the evidence height and keeps its latest height.
C6_MisbehaviourFreezes ==
    [][(/\ last'.op = "Misbehaviour" /\ last'.valid /\ last'.clientType = Tendermint
        /\ Exists(last'.clientID) /\ ~Frozen(last'.clientID)
        /\ <<last'.clientID, last'.height>> \in DOMAIN consensusStates)
         => /\ last'.err = ErrNil
            /\ last'.clientID \in DOMAIN clientStates'
            /\ clientStates'[last'.clientID].frozen
            /\ clientStates'[last'.clientID].frozenHeight = last'.height
            /\ clientStates'[last'.clientID].latestHeight =
                   clientStates[last'.clientID].latestHeight]_vars

\* frozen below the latest height
C6_Witness ==
    /\ last.op = "Misbehaviour" /\ last.err = ErrNil
    /\ Frozen(last.clientID)
    /\ clientStates[last.clientID].frozenHeight = last.height
    /\ clientStates[last.clientID].latestHeight > last.height

\* C7: evidence the strategy rejects changes nothing, emits nothing and is
\* reported to the caller as the strategy's rejection.
C7_RejectedEvidenceIsNoOp ==
    [][(/\ last'.op = "Misbehaviour" /\ ~last'.valid /\ last'.clientType = Tendermint
        /\ Exists(last'.clientID)
        /\ <<last'.clientID, last'.height>> \in DOMAIN consensusStates)
         => /\ last'.err = ErrInvalidEvidence
            /\ last'.events = <<>>
            /\ UNCHANGED Store]_vars

C7_Witness ==
    /\ last.op = "Misbehaviour" /\ last.err = ErrInvalidEvidence
    /\ Exists(last.clientID) /\ ~Frozen(last.clientID)
    /\ last.events = <<>>

C9_TypeIffState ==
    /\ DOMAIN clientTypes = DOMAIN clientStates
    /\ last.err # Panic

C9_Witness ==
    /\ last.op = "Create" /\ last.err = ErrNil
    /\ last.clientID \in DOMAIN clientTypes
    /\ last.clientID \in DOMAIN clientStates

\* C10: a successful Create stores the tag it was given, and a stored tag
\* never changes afterwards.
C10_TypeFixedAtCreation ==
    [][/\ \A clientID \in DOMAIN clientTypes :
              /\ clientID \in DOMAIN clientTypes'
              /\ clientTypes'[clientID] = clientTypes[clientID]
       /\ (last'.op = "Create" /\ last'.err = ErrNil)
            => /\ last'.clientID \in DOMAIN clientTypes'
               /\ clientTypes'[last'.clientID] = last'.clientType]_vars

\* a header of another type was turned away and the tag is still the created one
C10_Witness ==
    /\ last.op = "Update" /\ last.err = ErrInvalidConsensus
    /\ last.clientType = OtherType
    /\ last.clientID \in DOMAIN clientTypes
    /\ clientTypes[last.clientID] = Tendermint

ActiveIn(states, types, snapshots, clientID) ==
    /\ clientID \in DOMAIN states /\ ~states[clientID].frozen
    /\ clientID \in DOMAIN types /\ types[clientID] = Tendermint
    /\ <<clientID, states[clientID].latestHeight>> \in DOMAIN snapshots

ActiveAtLatest(clientID) == ActiveIn(clientStates, clientTypes, consensusStates, clientID)

\* C12: every step of the scenario, taken from the state the step before it
\* leaves, has the outcome the scenario gives: Create on the empty store
\* succeeds at the snapshot's height; Update with a valid later header
\* succeeds at the header's height; Update with a header of another type
\* fails with ErrInvalidConsensus; evidence of a fork at the latest height
\* freezes the client; every later valid Update fails with ErrClientFrozen.
C12_Scenario ==
    [][/\ (/\ last'.op = "Create" /\ last'.clientType = Tendermint
           /\ DOMAIN clientStates = {} /\ DOMAIN clientTypes = {})
            => /\ last'.err = ErrNil
               /\ ActiveIn(clientStates', clientTypes', consensusStates', last'.clientID)
               /\ clientStates'[last'.clientID].latestHeight = last'.height
       /\ (/\ last'.op = "Update" /\ last'.valid /\ last'.clientType = Tendermint
           /\ ActiveAtLatest(last'.clientID)
           /\ last'.height > clientStates[last'.clientID].latestHeight)
            => /\ last'.err = ErrNil
               /\ ActiveIn(clientStates', clientTypes', consensusStates', last'.clientID)
               /\ clientStates'[last'.clientID].latestHeight = last'.height
       /\ (/\ last'.op = "Update" /\ last'.clientType = OtherType
           /\ ActiveAtLatest(last'.clientID))
            => /\ last'.err = ErrInvalidConsensus
               /\ UNCHANGED Store
       /\ (/\ last'.op = "Misbehaviour" /\ last'.valid /\ last'.clientType = Tendermint
           /\ ActiveAtLatest(last'.clientID)
           /\ last'.height = clientStates[last'.clientID].latestHeight)
            => /\ last'.err = ErrNil
               /\ last'.clientID \in DOMAIN clientStates'
               /\ clientStates'[last'.clientID].frozen
       /\ (/\ last'.op = "Update" /\ last'.valid /\ last'.clientType = Tendermint
           /\ Frozen(last'.clientID))
            => /\ last'.err = ErrClientFrozen
               /\ UNCHANGED Store]_vars

\* the end of the scenario: created, updated to a later height, frozen there,
\* and a valid header of the right type turned away
C12_Witness ==
    /\ last.op = "Update" /\ last.valid /\ last.clientType = Tendermint
    /\ last.err = ErrClientFrozen
    /\ Frozen(last.clientID)
    /\ clientStates[last.clientID].frozenHeight = clientStates[last.clientID].latestHeight
    /\ \E h \in StoredHeights(last.clientID) : h < clientStates[last.clientID].latestHeight

\* the event type each operation announces itself with
EventKind(op) ==
    CASE op = "Create" -> EventTypeCreateClient
      [] op = "Update" -> EventTypeUpdateClient
      [] op = "Misbehaviour" -> EventTypeSubmitMisbehaviour
      [] OTHER -> NoAttr

C14_DispatchFailsClosed ==
    [][/\ (/\ last'.op = "Update"
           /\ last'.clientID \in DOMAIN clientTypes
           /\ clientTypes[last'.clientID] # Tendermint
           /\ last'.clientType = clientTypes[last'.clientID]
           /\ Exists(last'.clientID) /\ ~Frozen(last'.clientID))
            => /\ last'.err = ErrInvalidClientType
               /\ last'.events = <<>>
               /\ UNCHANGED Store
       /\ (/\ last'.op = "Misbehaviour" /\ last'.clientType # Tendermint
           /\ Exists(last'.clientID)
           /\ <<last'.clientID, last'.height>> \in DOMAIN consensusStates)
            => /\ last'.err = ErrUnknownRequest
               /\ last'.events = <<>>
               /\ UNCHANGED Store]_vars

\* a valid header of the client's own type, for a type without a strategy
C14_Witness ==
    /\ last.op = "Update" /\ last.valid /\ last.err = ErrInvalidClientType
    /\ last.clientID \in DOMAIN clientTypes
    /\ clientTypes[last.clientID] = OtherType
    /\ last.clientType = OtherType
    /\ Exists(last.clientID)

\* C15: evidence against an identifier without a client state fails with
\* ErrClientNotFound, and evidence at a height without a consensus state with
\* ErrConsensusStateNotFound, whatever the strategy would have said of the
\* evidence; nothing is written or emitted.
C15_MisbehaviourPreconditions ==
    [][last'.op = "Misbehaviour"
         => /\ ~Exists(last'.clientID)
                 => /\ last'.err = ErrClientNotFound
                    /\ last'.events = <<>>
                    /\ UNCHANGED Store
            /\ (/\ Exists(last'.clientID)
                /\ <<last'.clientID, last'.height>> \notin DOMAIN consensusStates)
                 => /\ last'.err = ErrConsensusStateNotFound
                    /\ last'.events = <<>>
                    /\ UNCHANGED Store]_vars

\* evidence the strategy would have accepted, at a height without a snapshot
C15_Witness ==
    /\ last.op = "Misbehaviour" /\ last.valid /\ last.clientType = Tendermint
    /\ last.err = ErrConsensusStateNotFound
    /\ Exists(last.clientID) /\ ~Frozen(last.clientID)
    /\ last.height \notin StoredHeights(last.clientID)

\* C16: after a successful Update with a header at height H the store holds a
\* consensus state under (identifier, H) next to the ones it held, and the
\* client state's latest height is H, the height of that snapshot.
C16_UpdatePersistsBoth ==
    [][(last'.op = "Update" /\ last'.err = ErrNil)
         => LET key == <<last'.clientID, last'.height>>
            IN  /\ DOMAIN consensusStates' = (DOMAIN consensusStates) \cup {key}
                /\ consensusStates'[key].height = last'.height
                /\ DOMAIN clientStates' = DOMAIN clientStates
                /\ last'.clientID \in DOMAIN clientStates'
                /\ clientStates'[last'.clientID].latestHeight = consensusStates'[key].height]_vars

\* an update that skipped a height
C16_Witness ==
    /\ last.op = "Update" /\ last.err = ErrNil
    /\ Exists(last.clientID)
    /\ clientStates[last.clientID].latestHeight = last.height
    /\ StoredHeights(last.clientID) = {1, last.height}
    /\ last.height > 2

\* C17: evidence against a client that is already frozen does not replace the
\* stored client state: the frozen height stays the one of the first freeze.
C17_FrozenSetOnce ==
    [][(last'.op = "Misbehaviour" /\ Frozen(last'.clientID))
         => /\ last'.clientID \in DOMAIN clientStates'
            /\ clientStates'[last'.clientID] = clientStates[last'.clientID]]_vars

\* C18: the error of an Update is decided by the first precondition that
\* fails, in this order: no type tag, header type differs from the tag, no
\* client state, frozen, no strategy for the tag; only then is the strategy's
\* verdict on the header returned.  A call stopped by a precondition writes
\* nothing, whether or not the header is valid.
C18_UpdateCheckOrder ==
    [][last'.op = "Update"
         => LET clientID == last'.clientID
            IN  IF clientID \notin DOMAIN clientTypes
                THEN last'.err = ErrClientTypeNotFound /\ UNCHANGED Store
                ELSE IF last'.clientType # clientTypes[clientID]
                THEN last'.err = ErrInvalidConsensus /\ UNCHANGED Store
                ELSE IF ~Exists(clientID)
                THEN last'.err = ErrClientNotFound /\ UNCHANGED Store
                ELSE IF clientStates[clientID].frozen
                THEN last'.err = ErrClientFrozen /\ UNCHANGED Store
                ELSE IF clientTypes[clientID] # Tendermint
                THEN last'.err = ErrInvalidClientType /\ UNCHANGED Store
                ELSE /\ last'.err \in {ErrNil, ErrInvalidHeader}
                     /\ ~last'.valid => last'.err = ErrInvalidHeader]_vars

\* a valid header for an identifier that has neither tag nor client state
C18_Witness ==
    /\ last.op = "Update" /\ last.valid /\ last.clientType = Tendermint
    /\ last.err = ErrClientTypeNotFound
    /\ ~Exists(last.clientID)
    /\ last.clientID \notin DOMAIN clientTypes

\* C19 (as stated): evidence whose type differs from the type tag stored for
\* its client is rejected with the type-mismatch error and changes nothing.
C19_EvidenceTypeMismatch ==
    [][(/\ last'.op = "Misbehaviour"
        /\ Exists(last'.clientID)
        /\ <<last'.clientID, last'.height>> \in DOMAIN consensusStates
        /\ last'.clientID \in DOMAIN clientTypes
        /\ last'.clientType # clientTypes[last'.clientID])
         => /\ last'.err = ErrInvalidConsensus
            /\ UNCHANGED Store]_vars

\* C19 (amended): evidence that is not Tendermint evidence is rejected with
\* ErrUnknownRequest and changes nothing; and whenever a client state is
\* saved by a misbehaviour call, the evidence is of the type stored for the
\* client.
C19_EvidenceTypeUnknown ==
    [][last'.op = "Misbehaviour"
         => /\ (/\ last'.clientType # Tendermint
                /\ Exists(last'.clientID)
                /\ <<last'.clientID, last'.height>> \in DOMAIN consensusStates)
                 => /\ last'.err = ErrUnknownRequest
                    /\ last'.events = <<>>
                    /\ UNCHANGED Store
            /\ (last'.err = ErrNil \/ clientStates' # clientStates)
                 => /\ last'.clientID \in DOMAIN clientTypes
                    /\ last'.clientType = clientTypes[last'.clientID]]_vars

\* valid evidence of another type against an active client
C19_Witness ==
    /\ last.op = "Misbehaviour" /\ last.valid /\ last.clientType = OtherType
    /\ last.err = ErrUnknownRequest
    /\ Exists(last.clientID) /\ ~Frozen(last.clientID)
    /\ last.height \in StoredHeights(last.clientID)

\* every client has a snapshot at its latest height, and every snapshot
\* belongs to a client and lies at or below that client's latest height
SnapshotAtLatest ==
    /\ \A clientID \in DOMAIN clientStates :
           /\ <<clientID, clientStates[clientID].latestHeight>> \in DOMAIN consensusStates
           /\ consensusStates[<<clientID, clientStates[clientID].latestHeight>>].height =
                  clientStates[clientID].latestHeight
    /\ \A key \in DOMAIN consensusStates :
           /\ key[1] \in DOMAIN clientStates
           /\ key[2] <= clientStates[key[1]].latestHeight

====
